---- MODULE Spec2Model ----
(***************************************************************************)
(* A model of the AI controller of JARVISAI (src/ai_control.py): the five  *)
(* handle_* tool-call handlers with the collaborator objects they call,    *)
(* the realtime audio session (start_realtime, stop_realtime, the capture  *)
(* callback, the transport thread and its callbacks), ask_sync, and the    *)
(* page that drives them (src/app.py): chat, quick actions, the Realtime   *)
(* tab and the Settings form.                                              *)
(*                                                                         *)
(* Strings built by the code are modelled as sequences of their parts:     *)
(* f"Unknown action: {action}" is <<"Unknown action: ", action>>.          *)
(***************************************************************************)
EXTENDS Naturals, Sequences, FiniteSets, TLC

VARIABLES
    mode,          \* AIController.mode
    messages,      \* AIController.messages, the transcript
    call,          \* the last handle_* call: its inputs and what it gave the caller
    is_recording,  \* AIController.is_recording
    audio_stream,  \* AIController.audio_stream: 0 = attribute not set, else the stream's id
    ws,            \* AIController.ws: 0 = None, else the transport's id
    ws_thread,     \* AIController.ws_thread: 0 = None, else the thread's id
    audio_queue,   \* AIController.audio_queue, the frames put and not taken
    streams,       \* the sd.InputStream objects created so far: id -> state
    transports,    \* the WebSocketApp objects created so far: id -> state
    threads,       \* the transport threads created so far: id -> state; thread i
                   \* runs transport i
    captured,      \* number of frames the audio subsystem has delivered to _audio_callback
    outbound,      \* the envelopes handed to ws.send, in order
    rtCall,        \* the last start_realtime, stop_realtime or send_text_message call
    platform,      \* SystemController: system, platform_supported, supported_features
    fs,            \* the file system: path -> "absent" or the content of the file
    env,           \* the .env file: key -> string
    settings,      \* st.session_state.settings
    controllers,   \* the configuration of every AIController constructed so far
    realtime_controller, \* st.session_state.realtime_controller: 0 = None, else an index
    chat,          \* st.session_state.messages, the chat history the page shows
    askCall,       \* the last ask_sync call
    arrived,       \* number of messages the transports have delivered to _on_message
    playLog,       \* the playbacks begun and ended on the audio device, in order
    inbound,       \* the last call of _on_message: what came in and how it ended
    connections,   \* DatabaseOperations.connections: the connection held per type
    dbCall         \* the last call of an operation of DatabaseOperations

streamVars == <<is_recording, audio_stream, ws, ws_thread, audio_queue, streams,
                transports, threads, captured, outbound, rtCall>>
configVars == <<mode, messages>>
dbVars == <<connections, dbCall>>

hostVars == <<platform, fs, connections, dbCall>>
appVars == <<env, settings, controllers, realtime_controller, chat, askCall>>
playVars == <<arrived, playLog, inbound>>
vars == <<mode, messages, call, is_recording, audio_stream, ws, ws_thread, audio_queue,
          streams, transports, threads, captured, outbound, rtCall, platform, fs, env,
          settings, controllers, realtime_controller, chat, askCall, arrived, playLog, inbound,
          connections, dbCall>>

(***************************************************************************)
(* Bounds of the model.                                                    *)
(***************************************************************************)
MaxStarts == 2    \* calls of start_realtime that get as far as creating a stream
MaxFrames == 3    \* frames delivered to the capture callback
MaxEnvelopes == 2 \* envelopes handed to the transport
MaxMessages == 2  \* messages the transports deliver to _on_message
MaxTurns == 2     \* chat turns
MaxControllers == 2 \* AIController objects constructed
MaxSessions == 1  \* streams started where capture, receiver and caller all run
MaxConnections == 2 \* database connections stored by DatabaseOperations

(***************************************************************************)
(* The operation registry: AIController.available_functions.               *)
(***************************************************************************)
SystemFunctions == {"control_volume", "control_brightness", "power_management",
                    "window_management", "process_control"}

FileFunctions == {"create_file", "read_file", "write_file", "append_file",
                  "delete_file", "create_directory", "list_directory",
                  "delete_directory", "get_file_info", "get_directory_size"}

TerminalFunctions == {"execute_command", "execute_command_with_output",
                      "start_process", "stop_process", "list_processes",
                      "get_system_info", "get_network_info"}

WebFunctions == {"search_web", "search_images", "search_videos", "search_news",
                 "search_academic", "download_file", "download_image",
                 "download_video"}

MediaFunctions == {"generate_image", "edit_image", "analyze_image",
                   "generate_audio", "transcribe_audio", "edit_audio"}

Registered == SystemFunctions \cup FileFunctions \cup TerminalFunctions
              \cup WebFunctions \cup MediaFunctions

available_functions(name) ==
    IF name \in SystemFunctions THEN "handle_system_control"
    ELSE IF name \in FileFunctions THEN "handle_file_operation"
    ELSE IF name \in TerminalFunctions THEN "handle_terminal_operation"
    ELSE IF name \in WebFunctions THEN "handle_web_operation"
    ELSE "handle_media_operation"

\* The group word each handler puts in its messages.
Group(h) ==
    CASE h = "handle_system_control" -> "system"
      [] h = "handle_file_operation" -> "file"
      [] h = "handle_terminal_operation" -> "terminal"
      [] h = "handle_web_operation" -> "web"
      [] h = "handle_media_operation" -> "media"

(***************************************************************************)
(* The collaborator objects: the methods each class defines.               *)
(***************************************************************************)
SystemControllerMethods == {"control_volume", "control_brightness",
                            "power_management", "window_management",
                            "process_control", "get_system_info"}

FileOperationsMethods == FileFunctions

TerminalOperationsMethods == TerminalFunctions \cup
    {"ssh_connect", "ssh_execute", "build_project", "generate_3d_model", "vibe_code"}

WebOperationsMethods == WebFunctions

MediaOperationsMethods == {"generate_image", "generate_audio", "process_image",
                           "process_video", "process_audio", "create_video",
                           "generate_3d_model", "record_audio", "play_audio",
                           "extract_frames"}

Methods(obj) ==
    CASE obj = "system_controller" -> SystemControllerMethods
      [] obj = "file_operations" -> FileOperationsMethods
      [] obj = "terminal_operations" -> TerminalOperationsMethods
      [] obj = "web_operations" -> WebOperationsMethods
      [] obj = "media_operations" -> MediaOperationsMethods

\* The parameters of the SystemController methods called with **params.
SigRequired(method) ==
    IF method = "process_control" THEN {"action", "process_name"} ELSE {"action"}

SigAllowed(method) ==
    CASE method \in {"control_volume", "control_brightness"} -> {"action", "value"}
      [] method = "power_management" -> {"action"}
      [] method = "window_management" -> {"action", "window_name"}
      [] method = "process_control" -> {"action", "process_name"}

\* The keys a handler reads with params.get for the method it calls.
GetKeys(method) ==
    CASE method \in {"create_file", "write_file", "append_file"} -> {"path", "content"}
      [] method \in {"read_file", "delete_file", "create_directory", "list_directory",
                     "delete_directory", "get_file_info", "get_directory_size",
                     "analyze_image", "transcribe_audio"} -> {"path"}
      [] method \in {"execute_command", "execute_command_with_output"} -> {"command"}
      [] method \in {"start_process", "stop_process"} -> {"process_name"}
      [] method \in {"list_processes", "get_system_info", "get_network_info"} -> {}
      [] method \in {"search_web", "search_images", "search_videos", "search_news",
                     "search_academic"} -> {"query"}
      [] method \in {"download_file", "download_image", "download_video"} -> {"url", "path"}
      [] method = "generate_image" -> {"prompt"}
      [] method = "generate_audio" -> {"text"}
      [] method \in {"edit_image", "edit_audio"} -> {"path", "instruction"}

(***************************************************************************)
(* What a piece of Python gives its caller: a value, or a raised exception, *)
(* together with the collaborator calls it made.                           *)
(***************************************************************************)
\* params: a mapping with the given keys, or a value that is no mapping (None).
Mapping(keys) == [is_mapping |-> TRUE, keys |-> keys]

NoneParams == [is_mapping |-> FALSE, keys |-> {}]

\* The value every call gives for a key it passes.
ArgValue(key) ==
    CASE key = "action" -> "set"
      [] key = "value" -> "150"
      [] key = "path" -> "notes.txt"
      [] OTHER -> "text"

\* type: what kind of Python value came back; effects: the calls made on the
\* operating system on the way.
Returned(v, inv) == [raised |-> FALSE, exc |-> "", value |-> v, invoked |-> inv,
                     type |-> "str", effects |-> <<>>]

ReturnedDict(v, inv) == [raised |-> FALSE, exc |-> "", value |-> v, invoked |-> inv,
                         type |-> "dict", effects |-> <<>>]

Raised(e, inv) == [raised |-> TRUE, exc |-> e, value |-> <<>>, invoked |-> inv,
                   type |-> "none", effects |-> <<>>]

\* Every exception the handlers meet derives from Exception.
IsException(e) == e \in {"TypeError", "AttributeError", "CollaboratorError"}

(***************************************************************************)
(* The host: SystemController's view of the platform, and the file system. *)
(***************************************************************************)
Systems == {"windows", "darwin", "linux", "other"}

Features == {"volume", "brightness", "power", "window", "process"}

\* import_fails: the platform's import raises ImportError.
_setup_platform_specific_imports(system, import_fails) ==
    IF system \in {"windows", "linux"} /\ import_fails
    THEN [platform_supported |-> FALSE, supported_features |-> [f \in Features |-> TRUE]]
    ELSE IF system \in {"windows", "linux", "darwin"}
    THEN [platform_supported |-> TRUE, supported_features |-> [f \in Features |-> TRUE]]
    ELSE [platform_supported |-> FALSE, supported_features |-> [f \in Features |-> FALSE]]

\* probe_fails: the features whose probe command raises.
_validate_platform_support(system, setup, probe_fails) ==
    IF ~setup.platform_supported THEN setup
    ELSE [setup EXCEPT !.supported_features =
              [f \in Features |->
                  IF f \in {"volume", "brightness"} /\ system \in {"darwin", "linux"}
                     /\ f \in probe_fails
                  THEN FALSE ELSE @[f]]]

SystemController(system, import_fails, probe_fails) ==
    LET checked == _validate_platform_support(
                       system, _setup_platform_specific_imports(system, import_fails),
                       probe_fails)
    IN [system |-> system, platform_supported |-> checked.platform_supported,
        supported_features |-> checked.supported_features]

Platforms == {SystemController(s, i, p) :
                 s \in Systems, i \in BOOLEAN, p \in SUBSET {"volume", "brightness"}}

\* SystemController.control_volume: the message it returns and the calls it
\* makes on the operating system.
control_volume(action, value_given) ==
    IF ~platform.supported_features["volume"]
    THEN [value |-> <<"Volume control is not supported on this system">>,
          effects |-> <<>>]
    ELSE [value |-> <<"Volume ", action, " successful">>,
          effects |->
              CASE platform.system = "windows" /\ action \in {"mute", "up", "down"} ->
                       <<"keyboard.press_and_release">>
                [] platform.system = "windows" /\ action = "set" /\ value_given ->
                       <<"subprocess.run">>
                [] platform.system = "darwin"
                   /\ (action \in {"mute", "unmute"} \/ (action = "set" /\ value_given)) ->
                       <<"osascript">>
                [] platform.system = "linux"
                   /\ (action \in {"mute", "unmute"} \/ (action = "set" /\ value_given)) ->
                       <<"os.system">>
                [] OTHER -> <<>>]

\* SystemController.control_brightness
control_brightness(action, value_given) ==
    IF ~platform.supported_features["brightness"]
    THEN [value |-> <<"Brightness control is not supported on this system">>,
          effects |-> <<>>]
    ELSE [value |-> <<"Brightness ", action, " successful">>,
          effects |->
              CASE platform.system = "windows" /\ action = "set" /\ value_given ->
                       <<"subprocess.run">>
                [] platform.system \in {"darwin", "linux"} /\ action = "set"
                   /\ value_given ->
                       <<"os.system">>
                [] OTHER -> <<>>]

\* A power_management that does not look at its feature flag.
power_management_NoCheck(action) ==
    [value |-> <<"Power management action ", action, " initiated">>,
     effects |->
         CASE platform.system = "windows"
              /\ action \in {"sleep", "shutdown", "restart", "hibernate"} ->
                  <<"os.system">>
           [] platform.system = "darwin" /\ action \in {"sleep", "shutdown", "restart"} ->
                  <<"osascript">>
           [] platform.system = "linux" /\ action \in {"sleep", "shutdown", "restart"} ->
                  <<"os.system">>
           [] OTHER -> <<"os.system">>]

\* SystemController.power_management
power_management(action) ==
    IF ~platform.supported_features["power"]
    THEN [value |-> <<"Power management is not supported on this system">>,
          effects |-> <<>>]
    ELSE [value |-> <<"Power management action ", action, " initiated">>,
          effects |->
              CASE platform.system = "windows"
                   /\ action \in {"sleep", "shutdown", "restart", "hibernate"} ->
                       <<"os.system">>
                [] platform.system = "darwin"
                   /\ action \in {"sleep", "shutdown", "restart"} ->
                       <<"osascript">>
                [] platform.system = "linux"
                   /\ action \in {"sleep", "shutdown", "restart"} ->
                       <<"os.system">>
                [] OTHER -> <<>>]

WindowActions == {"minimize", "maximize", "close", "focus"}

\* SystemController.window_management; found: what getWindowsWithTitle does,
\* "found", "absent" (an empty list) or "error" (it raises).
window_management(action, name_given, found) ==
    IF ~platform.supported_features["window"]
    THEN [value |-> <<"Window management is not supported on this system">>,
          effects |-> <<>>]
    ELSE IF ~name_given THEN [value |-> <<"No window specified">>, effects |-> <<>>]
    ELSE IF platform.system = "darwin"
    THEN [value |-> <<"Window ", action, " successful">>,
          effects |-> IF action \in WindowActions THEN <<"osascript">> ELSE <<>>]
    ELSE IF found = "error"
    THEN [value |-> <<"Error in window management: ", "Exception">>,
          effects |-> <<"pyautogui.getWindowsWithTitle">>]
    ELSE IF found = "absent"
    THEN [value |-> <<"Window '", "text", "' not found">>,
          effects |-> <<"pyautogui.getWindowsWithTitle">>]
    ELSE [value |-> <<"Window ", action, " successful">>,
          effects |-> <<"pyautogui.getWindowsWithTitle">>
                      \o (IF action \in WindowActions THEN <<"window." \o action>> ELSE <<>>)]

\* SystemController.process_control; running: a process of that name exists.
\* "restart" calls process_control again for "stop" and for "start".
RECURSIVE process_control(_, _)
process_control(action, running) ==
    IF ~platform.supported_features["process"]
    THEN [value |-> <<"Process control is not supported on this system">>,
          effects |-> <<>>]
    ELSE CASE action = "start" ->
                  [value |-> <<"Process ", action, " successful">>,
                   effects |-> <<"os.system">>]
           [] action = "stop" ->
                  [value |-> <<"Process ", action, " successful">>,
                   effects |-> <<"psutil.process_iter">>
                               \o (IF running THEN <<"proc.terminate">> ELSE <<>>)]
           [] action = "restart" ->
                  [value |-> <<"Process ", action, " successful">>,
                   effects |-> process_control("stop", running).effects
                               \o <<"time.sleep">>
                               \o process_control("start", running).effects]
           [] action = "status" ->
                  [value |-> IF running THEN <<"Process ", "text", " is running">>
                                        ELSE <<"Process ", "text", " is not running">>,
                   effects |-> <<"psutil.process_iter">>]
           [] OTHER ->
                  [value |-> <<"Process ", action, " successful">>, effects |-> <<>>]

\* The five operations of SystemController that look at a feature flag.
FlaggedOperations == {"control_volume", "control_brightness", "power_management",
                      "window_management", "process_control"}

\* The actions the docstrings name, and one they do not.
ActionsOf(method) ==
    (CASE method = "control_volume" -> {"mute", "unmute", "up", "down", "set"}
       [] method = "control_brightness" -> {"up", "down", "set"}
       [] method = "power_management" -> {"sleep", "shutdown", "restart", "hibernate"}
       [] method = "window_management" -> WindowActions
       [] method = "process_control" -> {"start", "stop", "restart", "status"})
    \cup {"other"}

\* system_controller.<method>(action, argument); given: the second argument
\* was passed and is not None; world: what the host answers.
system_operation(method, action, given, world) ==
    CASE method = "control_volume" -> control_volume(action, given)
      [] method = "control_brightness" -> control_brightness(action, given)
      [] method = "power_management" -> power_management(action)
      [] method = "window_management" -> window_management(action, given, world)
      [] method = "process_control" -> process_control(action, world = "found")

Paths == {"notes.txt"}

\* What a path holds when the program starts; "" is an empty file.
FileSystems == [Paths -> {"absent", "file content"}]

\* FileOperations.read_file: path is "None" when the caller passed None.
read_file(path) ==
    IF path = "None" THEN <<"Error reading file: ", "TypeError">>
    ELSE IF fs[path] = "absent" THEN <<"Error reading file: ", "FileNotFoundError">>
    ELSE <<fs[path]>>

\* FileOperations.create_file: open(path, 'w') creates or truncates the file
\* before f.write(content) looks at content; "None" stands for None.
create_file(path, content) ==
    IF path = "None"
    THEN [value |-> <<"Error creating file: ", "TypeError">>, fs |-> fs]
    ELSE IF content = "None"
    THEN [value |-> <<"Error creating file: ", "TypeError">>,
          fs |-> [fs EXCEPT ![path] = ""]]
    ELSE [value |-> <<"File created successfully at ", path>>,
          fs |-> [fs EXCEPT ![path] = content]]

\* FileOperations.write_file
write_file(path, content) ==
    IF path = "None"
    THEN [value |-> <<"Error writing to file: ", "TypeError">>, fs |-> fs]
    ELSE IF content = "None"
    THEN [value |-> <<"Error writing to file: ", "TypeError">>,
          fs |-> [fs EXCEPT ![path] = ""]]
    ELSE [value |-> <<"File written successfully at ", path>>,
          fs |-> [fs EXCEPT ![path] = content]]

\* The argument a call passes for key: its value, or None when params.get
\* found no such key.
Argument(key, given) == IF key \in given THEN ArgValue(key) ELSE "None"

\* The file system once file_operations.<method> has run with the keys given.
file_system_after(method, given) ==
    CASE method = "create_file" ->
             create_file(Argument("path", given), Argument("content", given)).fs
      [] method = "write_file" ->
             write_file(Argument("path", given), Argument("content", given)).fs
      [] OTHER -> fs

\* The methods that return a dict.
ReturnsDict(obj, method) ==
    obj = "media_operations" /\ method \in {"generate_image", "generate_audio"}

\* obj.method(...) once the arguments are bound; c is what the collaborator does:
\* "ok" returns a value, "raise" raises, "run" does what the method's source says.
CallCollaborator(obj, method, given, none, c) ==
    LET inv == <<[object |-> obj, method |-> method, given |-> given, none |-> none]>>
    IN IF c = "raise" THEN Raised("CollaboratorError", inv)
       ELSE IF c = "run" /\ obj = "system_controller" /\ method = "control_volume"
       THEN LET r == control_volume(ArgValue("action"), "value" \in given)
            IN [Returned(r.value, inv) EXCEPT !.effects = r.effects]
       ELSE IF c = "run" /\ obj = "file_operations" /\ method = "create_file"
       THEN Returned(create_file(Argument("path", given),
                                 Argument("content", given)).value, inv)
       ELSE IF c = "run" /\ obj = "file_operations" /\ method = "write_file"
       THEN Returned(write_file(Argument("path", given),
                                Argument("content", given)).value, inv)
       ELSE IF c = "run" /\ obj = "file_operations" /\ method = "read_file"
       THEN Returned(read_file(IF "path" \in given THEN ArgValue("path") ELSE "None"), inv)
       ELSE IF ReturnsDict(obj, method) THEN ReturnedDict(<<"result of ", method>>, inv)
       ELSE Returned(<<"result of ", method>>, inv)

\* self.<obj>.<method>(**params)
CallWithKeywords(obj, method, params, c) ==
    IF method \notin Methods(obj) THEN Raised("AttributeError", <<>>)
    ELSE IF ~params.is_mapping THEN Raised("TypeError", <<>>)
    ELSE IF ~(SigRequired(method) \subseteq params.keys
              /\ params.keys \subseteq SigAllowed(method))
         THEN Raised("TypeError", <<>>)
    ELSE CallCollaborator(obj, method, params.keys, {}, c)

\* self.<obj>.<method>(params.get(k1), params.get(k2), ...)
CallWithGets(obj, method, params, c) ==
    IF method \notin Methods(obj) THEN Raised("AttributeError", <<>>)
    ELSE IF GetKeys(method) # {} /\ ~params.is_mapping
         THEN Raised("AttributeError", <<>>)
    ELSE CallCollaborator(obj, method, GetKeys(method) \cap params.keys,
                          GetKeys(method) \ params.keys, c)

(***************************************************************************)
(* The five handlers.  X_body is the try block, handle_X adds the except.  *)
(***************************************************************************)
system_body(action, params, c) ==
    CASE action = "volume" ->
             CallWithKeywords("system_controller", "control_volume", params, c)
      [] action = "brightness" ->
             CallWithKeywords("system_controller", "control_brightness", params, c)
      [] action = "power" ->
             CallWithKeywords("system_controller", "power_management", params, c)
      [] action = "window" ->
             CallWithKeywords("system_controller", "window_management", params, c)
      [] action = "process" ->
             CallWithKeywords("system_controller", "process_control", params, c)
      [] OTHER -> Returned(<<"Unknown action: ", action>>, <<>>)

\* A system handler that words its failures as the other four handlers do.
handle_system_control_GroupMessage(action, params, c) ==
    LET r == system_body(action, params, c)
    IN IF r.raised /\ IsException(r.exc)
       THEN Returned(<<"Error in system operation: ", r.exc>>, r.invoked)
       ELSE r

handle_system_control(action, params, c) ==
    LET r == system_body(action, params, c)
    IN IF r.raised /\ IsException(r.exc)
       THEN Returned(<<"Error executing ", action, ": ", r.exc>>, r.invoked)
       ELSE r

file_body(operation, params, c) ==
    IF operation \in FileFunctions
    THEN CallWithGets("file_operations", operation, params, c)
    ELSE Returned(<<"Invalid file operation">>, <<>>)

\* A file handler without its except clause.
handle_file_operation_NoTry(operation, params, c) == file_body(operation, params, c)

handle_file_operation(operation, params, c) ==
    LET r == file_body(operation, params, c)
    IN IF r.raised /\ IsException(r.exc)
       THEN Returned(<<"Error in file operation: ", r.exc>>, r.invoked)
       ELSE r

terminal_body(operation, params, c) ==
    IF operation \in TerminalFunctions
    THEN CallWithGets("terminal_operations", operation, params, c)
    ELSE Returned(<<"Invalid terminal operation">>, <<>>)

handle_terminal_operation(operation, params, c) ==
    LET r == terminal_body(operation, params, c)
    IN IF r.raised /\ IsException(r.exc)
       THEN Returned(<<"Error in terminal operation: ", r.exc>>, r.invoked)
       ELSE r

web_body(operation, params, c) ==
    IF operation \in WebFunctions
    THEN CallWithGets("web_operations", operation, params, c)
    ELSE Returned(<<"Invalid web operation">>, <<>>)

\* A web handler that calls the collaborator a second time when it raised.
handle_web_operation_Retry(operation, params, c) ==
    LET r == web_body(operation, params, c)
    IN IF r.raised /\ IsException(r.exc)
       THEN Returned(<<"Error in web operation: ", r.exc>>, r.invoked \o r.invoked)
       ELSE r

handle_web_operation(operation, params, c) ==
    LET r == web_body(operation, params, c)
    IN IF r.raised /\ IsException(r.exc)
       THEN Returned(<<"Error in web operation: ", r.exc>>, r.invoked)
       ELSE r

media_body(operation, params, c) ==
    IF operation \in MediaFunctions
    THEN CallWithGets("media_operations", operation, params, c)
    ELSE Returned(<<"Invalid media operation">>, <<>>)

handle_media_operation(operation, params, c) ==
    LET r == media_body(operation, params, c)
    IN IF r.raised /\ IsException(r.exc)
       THEN Returned(<<"Error in media operation: ", r.exc>>, r.invoked)
       ELSE r

(***************************************************************************)
(* The inputs of a handler call.                                           *)
(***************************************************************************)
\* The names the system handler's branches test for, which the registry lacks.
SystemActions == {"volume", "brightness", "power", "window", "process"}

OperationNames == Registered \cup SystemActions \cup {"unknown_operation"}

ParamKinds == {"valid", "optional", "missing", "unexpected", "none", "no_content"}

CollaboratorBehaviours == {"ok", "raise", "run"}

\* The names whose collaborator method the model runs from its source.
Concrete == {"volume", "control_volume", "read_file"}

\* The keys the tool schema requires for a name.
RequiredParams(name) ==
    CASE name \in {"process_control", "process"} -> {"action", "process_name"}
      [] name \in SystemFunctions \cup SystemActions -> {"action"}
      [] name \in Registered -> GetKeys(name)
      [] OTHER -> {}

\* The keys the tool schema allows beside the required ones.
OptionalParams(name) ==
    CASE name \in {"control_volume", "volume", "control_brightness", "brightness"} ->
             {"value"}
      [] name \in {"window_management", "window"} -> {"window_name"}
      [] OTHER -> {}

ParamsOf(name, kind) ==
    CASE kind = "valid" -> Mapping(RequiredParams(name))
      [] kind = "optional" -> Mapping(RequiredParams(name) \cup OptionalParams(name))
      [] kind = "missing" -> Mapping({})
      [] kind = "unexpected" -> Mapping(RequiredParams(name) \cup {"unexpected_key"})
      [] kind = "none" -> NoneParams
      [] kind = "no_content" -> Mapping(RequiredParams(name) \ {"content"})

NoCall == [handler |-> "none", operation |-> "none", kind |-> "none",
           collaborator |-> "none", result |-> Returned(<<>>, <<>>)]

Record(h, name, kind, c, r) ==
    [handler |-> h, operation |-> name, kind |-> kind, collaborator |-> c, result |-> r]

\* The calls the model makes: an operation name, the shape of its params and
\* what the collaborator does.
CallInputs ==
    {in \in OperationNames \X ParamKinds \X CollaboratorBehaviours :
        /\ in[2] = "optional" => OptionalParams(in[1]) # {}
        /\ in[2] = "no_content" => "content" \in RequiredParams(in[1])
        /\ in[3] = "run" => in[1] \in Concrete}

HandleSystemControl ==
    \E in \in CallInputs :
        /\ call' = Record("handle_system_control", in[1], in[2], in[3],
                          handle_system_control(in[1], ParamsOf(in[1], in[2]), in[3]))
        /\ UNCHANGED <<configVars, hostVars, appVars, playVars, streamVars>>

\* One call of an operation of the SystemController singleton.
SystemOperation ==
    \E method \in FlaggedOperations, given \in BOOLEAN,
       world \in {"found", "absent", "error"} :
        \E action \in ActionsOf(method) :
            LET r == system_operation(method, action, given, world)
                inv == <<[object |-> "system_controller", method |-> method,
                          given |-> {"action"} \cup (IF given THEN {"argument"} ELSE {}),
                          none |-> {}]>>
            IN /\ call' = Record("system_controller", method, action, "run",
                                 [Returned(r.value, inv) EXCEPT !.effects = r.effects])
               /\ UNCHANGED <<configVars, hostVars, appVars, playVars, streamVars>>

\* The calls of the file handler: those of CallInputs, and create_file and
\* write_file run from their source.
FileCallInputs ==
    CallInputs \cup ({"create_file", "write_file"} \X (ParamKinds \ {"optional"}) \X {"run"})

HandleFileOperation ==
    \E in \in FileCallInputs :
        LET r == handle_file_operation(in[1], ParamsOf(in[1], in[2]), in[3])
        IN /\ call' = Record("handle_file_operation", in[1], in[2], in[3], r)
           /\ fs' = IF in[3] = "run" /\ r.invoked # <<>>
                    THEN file_system_after(r.invoked[1].method, r.invoked[1].given)
                    ELSE fs
           /\ UNCHANGED <<configVars, platform, dbVars, appVars, playVars, streamVars>>

HandleTerminalOperation ==
    \E in \in CallInputs :
        /\ call' = Record("handle_terminal_operation", in[1], in[2], in[3],
                          handle_terminal_operation(in[1], ParamsOf(in[1], in[2]), in[3]))
        /\ UNCHANGED <<configVars, hostVars, appVars, playVars, streamVars>>

HandleWebOperation ==
    \E in \in CallInputs :
        /\ call' = Record("handle_web_operation", in[1], in[2], in[3],
                          handle_web_operation(in[1], ParamsOf(in[1], in[2]), in[3]))
        /\ UNCHANGED <<configVars, hostVars, appVars, playVars, streamVars>>

HandleMediaOperation ==
    \E in \in CallInputs :
        /\ call' = Record("handle_media_operation", in[1], in[2], in[3],
                          handle_media_operation(in[1], ParamsOf(in[1], in[2]), in[3]))
        /\ UNCHANGED <<configVars, hostVars, appVars, playVars, streamVars>>

(***************************************************************************)
(* Construction: AIController.__init__ and _initialize_messages.           *)
(***************************************************************************)
_initialize_messages(initial_prompt) ==
    IF initial_prompt
    THEN <<[role |-> "system", content |-> "system prompt"],
           [role |-> "user", content |-> "initial prompt"],
           [role |-> "assistant", content |-> "I understand. How can I help you?"]>>
    ELSE <<[role |-> "system", content |-> "system prompt"]>>

\* A call of the realtime interface: what it found, what it did, how it ended.
\*   active:    start_realtime found the stream started and not stopped
\*   created:   the id of the stream, transport and thread start_realtime created
\*   before:    the state of the controller as stop_realtime found it
\*   performed: the library calls stop_realtime made, in order
\*   sent:      the envelopes send_text_message handed to the transport
RtCall(op, result, active, created, before, performed, sent) ==
    [op |-> op, result |-> result, active |-> active, created |-> created,
     before |-> before, performed |-> performed, sent |-> sent]

NoRtCall == RtCall("none", "none", FALSE, 0, "Idle", <<>>, 0)

(***************************************************************************)
(* The settings of the page (src/app.py) and the .env file behind them.    *)
(***************************************************************************)
EnvKeys == {"OPENAI_API_KEY", "OPENAI_MODEL", "INITIAL_PROMPT", "DEVICE",
            "FUNCTION_CALLING", "VOICE", "INCLUDE_DATE", "INCLUDE_TIME", "PC_USERNAME"}

FlagKeys == {"FUNCTION_CALLING", "INCLUDE_DATE", "INCLUDE_TIME"}

\* The values os.getenv falls back on.
DefaultEnv ==
    [k \in EnvKeys |->
        CASE k = "OPENAI_API_KEY" -> ""
          [] k = "OPENAI_MODEL" -> "gpt-4o-mini-realtime-preview-2024-12-17"
          [] k = "INITIAL_PROMPT" -> ""
          [] k = "DEVICE" -> "unknown"
          [] k = "VOICE" -> "echo"
          [] k = "PC_USERNAME" -> "YourUsername"
          [] OTHER -> "True"]

InitialEnvs ==
    {[DefaultEnv EXCEPT !["INITIAL_PROMPT"] = p, !["FUNCTION_CALLING"] = f] :
        p \in {"", "Be brief."}, f \in {"True", "no"}}

\* value.lower() in ("true", "1", "yes")
Truthy(value) == value \in {"True", "true", "TRUE", "1", "yes", "Yes", "YES"}

\* str(flag)
Str(flag) == IF flag THEN "True" ELSE "False"

\* st.session_state.settings as the page builds it from the environment.
LoadSettings(e) == [k \in EnvKeys |-> IF k \in FlagKeys THEN Truthy(e[k]) ELSE e[k]]

\* What the Settings form writes to .env for the values submitted.
StoreSettings(form) == [k \in EnvKeys |-> IF k \in FlagKeys THEN Str(form[k]) ELSE form[k]]

\* AIController.__init__ as the page calls it: the configuration fields.  device
\* is not passed and keeps its default; pc_username comes from the process
\* environment, which load_dotenv leaves alone once it is set.
AIController(s, m) ==
    [api_key |-> s["OPENAI_API_KEY"], device |-> "unknown", model |-> s["OPENAI_MODEL"],
     initial_prompt |-> s["INITIAL_PROMPT"], include_date |-> s["INCLUDE_DATE"],
     include_time |-> s["INCLUDE_TIME"], mode |-> m,
     function_calling |-> s["FUNCTION_CALLING"], voice |-> s["VOICE"],
     pc_username |-> DefaultEnv["PC_USERNAME"]]

NoAsk == [called |-> FALSE, prompt |-> "none", handled |-> FALSE,
          result |-> Returned(<<>>, <<>>)]

(***************************************************************************)
(* DatabaseOperations: the connections map and the operations on it.       *)
(***************************************************************************)
\* The four types connect_database knows, and one it does not.
DbTypes == {"sqlite", "mysql", "postgresql", "mongodb", "oracle"}

SupportedDbTypes == {"sqlite", "mysql", "postgresql", "mongodb"}

\* What an operation returns: {"success": True, ...} or {"error": ...}.
DbSuccess(text) == [key |-> "success", text |-> text]

DbError(text) == [key |-> "error", text |-> text]

\* used: the connection the call ran against, 0 when it ran against none.
DbCall(op, db_type, result, used) ==
    [op |-> op, db_type |-> db_type, result |-> result, used |-> used]

NoDbCall == DbCall("none", "none", DbSuccess(<<>>), 0)

\* The connection a successful connect hands out; 0 stands for no entry.
NextConnection ==
    1 + Cardinality({c \in 1..MaxConnections :
                        \E t \in DbTypes : connections[t] >= c})

\* A connect_database that enters the connection before the driver connects.
connect_database_StoreFirst(db_type, fails) ==
    IF db_type \notin SupportedDbTypes
    THEN /\ dbCall' = DbCall("connect_database", db_type,
                             DbError(<<"Unsupported database type: ", db_type>>), 0)
         /\ connections' = connections
    ELSE /\ connections' = [connections EXCEPT ![db_type] = NextConnection]
         /\ dbCall' = DbCall("connect_database", db_type,
                             IF fails THEN DbError(<<"driver error">>)
                             ELSE DbSuccess(<<"Connected to ", db_type, " database">>), 0)

\* connect_database; fails: the driver's connect raises.
connect_database(db_type, fails) ==
    IF db_type \notin SupportedDbTypes
    THEN /\ dbCall' = DbCall("connect_database", db_type,
                             DbError(<<"Unsupported database type: ", db_type>>), 0)
         /\ connections' = connections
    ELSE IF fails
    THEN /\ dbCall' = DbCall("connect_database", db_type, DbError(<<"driver error">>), 0)
         /\ connections' = connections
    ELSE /\ connections' = [connections EXCEPT ![db_type] = NextConnection]
         /\ dbCall' = DbCall("connect_database", db_type,
                             DbSuccess(<<"Connected to ", db_type, " database">>), 0)

\* create_database: only the sqlite branch keeps the connection it opens.
create_database(db_type, fails) ==
    IF db_type \notin SupportedDbTypes
    THEN /\ dbCall' = DbCall("create_database", db_type,
                             DbError(<<"Unsupported database type: ", db_type>>), 0)
         /\ connections' = connections
    ELSE IF fails
    THEN /\ dbCall' = DbCall("create_database", db_type, DbError(<<"driver error">>), 0)
         /\ connections' = connections
    ELSE /\ connections' = IF db_type = "sqlite"
                           THEN [connections EXCEPT ![db_type] = NextConnection]
                           ELSE connections
         /\ dbCall' = DbCall("create_database", db_type,
                             DbSuccess(<<"Created ", db_type, " database: ", "text">>), 0)

\* execute_query; fails: the cursor or the collection raises.
execute_query(db_type, fails) ==
    /\ connections' = connections
    /\ dbCall' =
           IF connections[db_type] = 0
           THEN DbCall("execute_query", db_type,
                       DbError(<<"No connection to ", db_type, " database">>), 0)
           ELSE IF fails
           THEN DbCall("execute_query", db_type, DbError(<<"driver error">>),
                       connections[db_type])
           ELSE DbCall("execute_query", db_type, DbSuccess(<<"results">>),
                       connections[db_type])

ExportFormats == {"csv", "json", "excel", "yaml"}

\* export_data; fails: the query or the writing of the file raises.
export_data(db_type, format, fails) ==
    /\ connections' = connections
    /\ dbCall' =
           IF connections[db_type] = 0
           THEN DbCall("export_data", db_type,
                       DbError(<<"No connection to ", db_type, " database">>), 0)
           ELSE IF fails
           THEN DbCall("export_data", db_type, DbError(<<"driver error">>),
                       connections[db_type])
           ELSE IF format \notin ExportFormats
           THEN DbCall("export_data", db_type,
                       DbError(<<"Unsupported export format: ", format>>),
                       connections[db_type])
           ELSE DbCall("export_data", db_type,
                       DbSuccess(<<"Data exported successfully to ", "text">>),
                       connections[db_type])

\* The variables DatabaseOperations does not touch.
NotDatabase == <<configVars, platform, fs, appVars, playVars, streamVars, call>>

ConnectDatabase ==
    \E db_type \in DbTypes, fails \in BOOLEAN :
        /\ NextConnection <= MaxConnections
        /\ connect_database(db_type, fails)
        /\ UNCHANGED NotDatabase

CreateDatabase ==
    \E db_type \in DbTypes, fails \in BOOLEAN :
        /\ NextConnection <= MaxConnections
        /\ create_database(db_type, fails)
        /\ UNCHANGED NotDatabase

ExecuteQuery ==
    \E db_type \in DbTypes, fails \in BOOLEAN :
        /\ execute_query(db_type, fails)
        /\ UNCHANGED NotDatabase

ExportData ==
    \E db_type \in DbTypes, format \in ExportFormats \cup {"xml"}, fails \in BOOLEAN :
        /\ export_data(db_type, format, fails)
        /\ UNCHANGED NotDatabase

DatabaseNext == ConnectDatabase \/ CreateDatabase \/ ExecuteQuery \/ ExportData

\* No message has come in yet.
NoInbound == [kind |-> "none", printed |-> "none", played |-> FALSE, raised |-> FALSE]

Init ==
    /\ mode \in {"text", "realtime"}
    /\ platform \in Platforms
    /\ fs \in FileSystems
    /\ env \in InitialEnvs
    /\ settings = LoadSettings(env)
    /\ controllers = <<AIController(settings, mode)>>
    /\ messages = _initialize_messages(controllers[1].initial_prompt # "")
    /\ realtime_controller = 0
    /\ chat = <<>>
    /\ askCall = NoAsk
    /\ arrived = 0
    /\ playLog = <<>>
    /\ inbound = NoInbound
    /\ connections = [t \in DbTypes |-> 0]
    /\ dbCall = NoDbCall
    /\ call = NoCall
    /\ is_recording = FALSE
    /\ audio_stream = 0
    /\ ws = 0
    /\ ws_thread = 0
    /\ audio_queue = <<>>
    /\ streams = [i \in 1..MaxStarts |-> "none"]
    /\ transports = [i \in 1..MaxStarts |-> "none"]
    /\ threads = [i \in 1..MaxStarts |-> "none"]
    /\ captured = 0
    /\ outbound = <<>>
    /\ rtCall = NoRtCall

(***************************************************************************)
(* The realtime session.                                                   *)
(***************************************************************************)
Ids == 1..MaxStarts

\* The id the next sd.InputStream / WebSocketApp / Thread gets.
NextId == 1 + Cardinality({i \in Ids : streams[i] # "none"})

\* start_realtime once sd.InputStream(...) has been created: the transport, its
\* thread, is_recording and audio_stream.start().  active: the controller was
\* recording when the call began.
open_stream(fail, active) ==
    /\ NextId \in Ids
    /\ audio_stream' = NextId
    /\ ws' = NextId
    /\ ws_thread' = NextId
    /\ transports' = [transports EXCEPT ![NextId] = "connecting"]
    /\ threads' = [threads EXCEPT ![NextId] = "started"]
    /\ is_recording' = TRUE
    /\ streams' = [streams EXCEPT
                      ![NextId] = IF fail = "start" THEN "created" ELSE "running"]
    /\ rtCall' = RtCall("start_realtime",
                      IF fail = "start" THEN "raised" ELSE "returned",
                      active, NextId, "Idle", <<>>, 0)

\* A start_realtime that does not look at the mode.
start_realtime_AnyMode(fail) ==
    IF fail = "InputStream"
    THEN /\ rtCall' = RtCall("start_realtime", "raised", is_recording, 0, "Idle",
                           <<>>, 0)
         /\ UNCHANGED <<is_recording, audio_stream, ws, ws_thread, streams,
                        transports, threads>>
    ELSE open_stream(fail, is_recording)

\* start_realtime.  fail names the library call that raises, if any.
start_realtime(fail) ==
    IF mode # "realtime"
    THEN /\ rtCall' = RtCall("start_realtime", "returned", is_recording, 0, "Idle",
                           <<>>, 0)
         /\ UNCHANGED <<is_recording, audio_stream, ws, ws_thread, streams,
                        transports, threads>>
    ELSE IF fail = "InputStream"
    THEN /\ rtCall' = RtCall("start_realtime", "raised", is_recording, 0, "Idle",
                           <<>>, 0)
         /\ UNCHANGED <<is_recording, audio_stream, ws, ws_thread, streams,
                        transports, threads>>
    ELSE open_stream(fail, is_recording)

\* The caller of the realtime interface waits inside stop_realtime.
Blocked == rtCall.op = "stop_realtime" /\ rtCall.result = "joining"

StartRealtime ==
    \E fail \in {"none", "InputStream", "start"} :
        /\ ~Blocked
        /\ start_realtime(fail)
        /\ UNCHANGED <<configVars, hostVars, appVars, playVars, call, audio_queue, captured, outbound>>

\* self.audio_queue = Queue(): maxsize 0, which queue.Queue reads as no limit.
audio_queue_maxsize == 0

\* Queue.put blocks while the queue is full.
Full(queue) == audio_queue_maxsize > 0 /\ Len(queue) >= audio_queue_maxsize

\* A callback that discards the frame once two frames wait.
_audio_callback_DropNewest(queue, indata) ==
    IF Len(queue) >= 2 THEN queue ELSE Append(queue, indata)

\* _audio_callback: self.audio_queue.put(indata.copy())
_audio_callback(queue, indata) == Append(queue, indata)

\* The audio subsystem fires the callback of every stream that runs.
AudioCallback ==
    /\ \E i \in Ids : streams[i] = "running"
    /\ captured < MaxFrames
    /\ ~Full(audio_queue)
    /\ captured' = captured + 1
    /\ audio_queue' = _audio_callback(audio_queue, captured + 1)
    /\ UNCHANGED <<configVars, hostVars, appVars, playVars, call, is_recording, audio_stream, ws, ws_thread, streams,
                   transports, threads, outbound, rtCall>>

\* An _on_close that marks the controller as no longer recording.
_on_close_StopsRecording ==
    /\ is_recording' = FALSE
    /\ UNCHANGED <<audio_stream, ws, ws_thread, audio_queue, streams>>

\* _on_error and _on_close print and touch no field of the controller.
_on_error == UNCHANGED <<is_recording, audio_stream, ws, ws_thread, audio_queue, streams>>

_on_close == UNCHANGED <<is_recording, audio_stream, ws, ws_thread, audio_queue, streams>>

\* The transport thread, once scheduled, enters ws.run_forever.
RunForever ==
    \E t \in Ids :
        /\ threads[t] = "started"
        /\ threads' = [threads EXCEPT ![t] = "running"]
        /\ UNCHANGED <<configVars, hostVars, appVars, playVars, call, is_recording,
                       audio_stream, ws, ws_thread, audio_queue, streams, transports,
                       captured, outbound, rtCall>>

\* ws.run_forever in the transport thread: the connection is established.
TransportOpen ==
    \E t \in Ids :
        /\ threads[t] = "running"
        /\ transports[t] = "connecting"
        /\ transports' = [transports EXCEPT ![t] = "open"]
        /\ UNCHANGED <<configVars, hostVars, appVars, playVars, call, is_recording, audio_stream, ws, ws_thread,
                       audio_queue, streams, threads, captured, outbound, rtCall>>

\* A transport error: run_forever calls _on_error, then _on_close, and returns.
TransportError ==
    \E t \in Ids :
        /\ threads[t] = "running"
        /\ transports[t] \in {"connecting", "open"}
        /\ transports' = [transports EXCEPT ![t] = "failed"]
        /\ threads' = [threads EXCEPT ![t] = "finished"]
        /\ _on_error
        /\ _on_close
        /\ UNCHANGED <<configVars, hostVars, appVars, playVars, call, captured, outbound, rtCall>>

\* The peer closes the connection: run_forever calls _on_close and returns.
TransportClosed ==
    \E t \in Ids :
        /\ threads[t] = "running"
        /\ transports[t] = "open"
        /\ transports' = [transports EXCEPT ![t] = "closed"]
        /\ threads' = [threads EXCEPT ![t] = "finished"]
        /\ _on_close
        /\ UNCHANGED <<configVars, hostVars, appVars, playVars, call, captured, outbound, rtCall>>

\* run_forever finds the transport closed by ws.close(), calls _on_close and
\* returns: the thread ends.
ThreadExit ==
    \E t \in Ids :
        /\ threads[t] = "running"
        /\ transports[t] = "closed"
        /\ threads' = [threads EXCEPT ![t] = "finished"]
        /\ _on_close
        /\ UNCHANGED <<configVars, hostVars, appVars, playVars, call, transports,
                       captured, outbound, rtCall>>

\* What the library calls of stop_realtime do to the objects they are called on.
StreamStop(s) == IF s \in {"created", "running"} THEN "stopped" ELSE s

StreamClose(s) == "closed"

TransportClose(s) == IF s \in {"connecting", "open"} THEN "closed" ELSE s

\* Every resource the controller refers to is released.
Released ==
    /\ audio_stream # 0 => streams[audio_stream] = "closed"
    /\ ws # 0 => transports[ws] \notin {"connecting", "open"}
    /\ ws_thread # 0 => threads[ws_thread] = "finished"

\* The state of the controller: Idle before any start, Closed once stopped with
\* everything released, Live otherwise.
ControllerState ==
    IF ~is_recording /\ audio_stream = 0 /\ ws = 0 /\ ws_thread = 0 THEN "Idle"
    ELSE IF ~is_recording /\ Released THEN "Closed"
    ELSE "Live"

\* The library calls stop_realtime makes, in order, when the call `fail` raises.
Performed(fail) ==
    LET stream == IF audio_stream = 0 THEN <<>>
                  ELSE IF fail = "audio_stream.stop" THEN <<"audio_stream.stop">>
                  ELSE <<"audio_stream.stop", "audio_stream.close">>
        streamDone == fail \notin {"audio_stream.stop", "audio_stream.close"}
        transport == IF streamDone /\ ws # 0 THEN <<"ws.close">> ELSE <<>>
        join == IF streamDone /\ fail # "ws.close" /\ ws_thread # 0
                THEN <<"ws_thread.join">> ELSE <<>>
    IN stream \o transport \o join

Contains(seq, x) == \E i \in 1..Len(seq) : seq[i] = x

\* stop_realtime up to ws_thread.join().  fail names the library call that raises,
\* if any.  ws.close() and the transport thread are not synchronised: a close
\* that comes before the thread has entered run_forever is undone when
\* run_forever starts, and the transport connects as if never closed.  join()
\* has no timeout: the call returns at once only if the thread has finished,
\* and waits for JoinReturns otherwise.
stop_realtime(fail) ==
    LET done == Performed(fail)
        ok(op) == Contains(done, op) /\ fail # op
        joined == ~ok("ws_thread.join") \/ threads[ws_thread] = "finished"
    IN /\ is_recording' = FALSE
       /\ streams' = IF ok("audio_stream.close")
                     THEN [streams EXCEPT ![audio_stream] = StreamClose(StreamStop(@))]
                     ELSE IF ok("audio_stream.stop")
                     THEN [streams EXCEPT ![audio_stream] = StreamStop(@)]
                     ELSE streams
       /\ transports' = IF ok("ws.close") /\ threads[ws] # "started"
                        THEN [transports EXCEPT ![ws] = TransportClose(@)]
                        ELSE transports
       /\ rtCall' = RtCall("stop_realtime",
                         IF fail # "none" THEN "raised"
                         ELSE IF joined THEN "returned" ELSE "joining",
                         FALSE, 0, ControllerState, done, 0)
       /\ UNCHANGED <<audio_stream, ws, ws_thread, threads>>

StopRealtime ==
    \E fail \in {"none", "audio_stream.stop", "audio_stream.close", "ws.close"} :
        /\ ~Blocked
        /\ fail # "none" => Contains(Performed(fail), fail)
        /\ stop_realtime(fail)
        /\ UNCHANGED <<configVars, hostVars, appVars, playVars, call, audio_queue, captured, outbound>>

\* ws_thread.join() returns once the thread has finished, and stop_realtime with it.
JoinReturns ==
    /\ Blocked
    /\ threads[ws_thread] = "finished"
    /\ rtCall' = [rtCall EXCEPT !.result = "returned"]
    /\ UNCHANGED <<configVars, hostVars, appVars, playVars, call, is_recording,
                   audio_stream, ws, ws_thread, audio_queue, streams, transports,
                   threads, captured, outbound>>

\* send_text_message: two ws.send calls; fail names the one that raises, if any.
Envelope(type, role) == [type |-> type, role |-> role, frame |-> 0]

\* A send_text_message that asks for the response before it sends the item.
send_text_message_ResponseFirst(role, fail) ==
    LET sent == IF ws = 0 THEN 0
                ELSE IF transports[ws] # "open" \/ fail = "first" THEN 0
                ELSE IF fail = "second" THEN 1
                ELSE 2
        events == <<Envelope("response.create", "none"),
                    Envelope("conversation.item.create", role)>>
    IN /\ outbound' = outbound \o SubSeq(events, 1, sent)
       /\ rtCall' = RtCall("send_text_message", IF sent = 2 THEN "returned" ELSE "raised",
                         FALSE, 0, "Idle", <<>>, sent)

send_text_message(role, fail) ==
    LET sent == IF ws = 0 THEN 0
                ELSE IF transports[ws] # "open" \/ fail = "first" THEN 0
                ELSE IF fail = "second" THEN 1
                ELSE 2
        events == <<Envelope("conversation.item.create", role),
                    Envelope("response.create", "none")>>
    IN /\ outbound' = outbound \o SubSeq(events, 1, sent)
       /\ rtCall' = RtCall("send_text_message", IF sent = 2 THEN "returned" ELSE "raised",
                         FALSE, 0, "Idle", <<>>, sent)

SendTextMessage ==
    \E role \in {"user"}, fail \in {"none", "first", "second"} :
        /\ ~Blocked
        /\ Len(outbound) + 2 <= MaxEnvelopes
        /\ send_text_message(role, fail)
        /\ UNCHANGED <<configVars, hostVars, appVars, playVars, call, is_recording, audio_stream, ws, ws_thread,
                       audio_queue, streams, transports, threads, captured>>

StreamNext ==
    \/ StartRealtime
    \/ StopRealtime
    \/ JoinReturns
    \/ AudioCallback
    \/ RunForever
    \/ TransportOpen
    \/ TransportError
    \/ TransportClosed
    \/ ThreadExit
    \/ SendTextMessage

Last(seq) == seq[Len(seq)]

(***************************************************************************)
(* The receive path: _on_message in the transport threads.                 *)
(***************************************************************************)
\* What a message holds: a "text" field, an "audio" field, both, neither, no
\* JSON at all, an "audio" field that b64decode rejects, or audio that sd.play
\* rejects.
MessageKinds == {"text", "audio", "both", "neither", "malformed", "unplayable",
                 "playback_failure"}

\* The message whose playback is under way.
Playing == Last(playLog).msg

\* The try block of _on_message: what it prints, whether sd.play began a
\* playback, and the exception it raises, if any.
message_body(kind) ==
    CASE kind = "malformed" ->
             [printed |-> "none", played |-> FALSE, raised |-> TRUE,
              exc |-> "JSONDecodeError"]
      [] kind \in {"text", "both"} ->
             [printed |-> "AI: text", played |-> FALSE, raised |-> FALSE, exc |-> ""]
      [] kind = "audio" ->
             [printed |-> "none", played |-> TRUE, raised |-> FALSE, exc |-> ""]
      [] kind = "unplayable" ->
             [printed |-> "none", played |-> FALSE, raised |-> TRUE,
              exc |-> "binascii.Error"]
      [] kind = "playback_failure" ->
             [printed |-> "none", played |-> FALSE, raised |-> TRUE,
              exc |-> "PortAudioError"]
      [] OTHER ->
             [printed |-> "none", played |-> FALSE, raised |-> FALSE, exc |-> ""]

\* except Exception as e: print(f"Error processing message: {e}")
message_outcome(kind) ==
    LET r == message_body(kind)
    IN IF r.raised
       THEN [kind |-> kind, printed |-> "Error processing message", played |-> FALSE,
             raised |-> FALSE]
       ELSE [kind |-> kind, printed |-> r.printed, played |-> r.played,
             raised |-> FALSE]

\* An _on_message whose branches are two separate if statements and that has
\* no except clause.
_on_message_Unguarded(t, msg, kind) ==
    LET r == message_body(kind)
        plays == r.played \/ kind = "both"
    IN /\ inbound' = [kind |-> kind, printed |-> r.printed, played |-> plays,
                      raised |-> r.raised]
       /\ IF plays
          THEN /\ playLog' = Append(playLog, [event |-> "begin", msg |-> msg])
               /\ threads' = [u \in Ids |-> IF u = t THEN "playing"
                                            ELSE IF threads[u] = "playing" THEN "running"
                                            ELSE threads[u]]
          ELSE UNCHANGED <<playLog, threads>>

\* _on_message in the thread t.  Only a message with an "audio" and no "text"
\* field reaches sd.play; sd.play stops the playback under way, whose thread
\* then returns from sd.wait(); the thread t waits in sd.wait().
_on_message(t, msg, kind) ==
    LET r == message_outcome(kind)
    IN /\ inbound' = r
       /\ IF r.played
          THEN /\ playLog' = Append(playLog, [event |-> "begin", msg |-> msg])
               /\ threads' = [u \in Ids |-> IF u = t THEN "playing"
                                            ELSE IF threads[u] = "playing" THEN "running"
                                            ELSE threads[u]]
          ELSE UNCHANGED <<playLog, threads>>

\* The transport delivers its next message to the thread that runs it.
OnMessage ==
    \E t \in Ids, kind \in MessageKinds :
        /\ threads[t] = "running"
        /\ transports[t] = "open"
        /\ arrived < MaxMessages
        /\ arrived' = arrived + 1
        /\ _on_message(t, arrived + 1, kind)
        /\ UNCHANGED <<configVars, hostVars, appVars, call, is_recording, audio_stream,
                       ws, ws_thread, audio_queue, streams, transports, captured,
                       outbound, rtCall>>

\* The audio device has played the last sample: sd.wait() returns in the thread
\* that waits, and _on_message with it.
PlaybackDone ==
    \E t \in Ids :
        /\ threads[t] = "playing"
        /\ playLog' = Append(playLog, [event |-> "end", msg |-> Playing])
        /\ threads' = [threads EXCEPT ![t] = "running"]
        /\ UNCHANGED <<configVars, hostVars, appVars, call, is_recording, audio_stream,
                       ws, ws_thread, audio_queue, streams, transports, captured,
                       outbound, rtCall, arrived, inbound>>

ReceiveNext ==
    \/ StartRealtime
    \/ StopRealtime
    \/ JoinReturns
    \/ RunForever
    \/ TransportOpen
    \/ TransportError
    \/ TransportClosed
    \/ ThreadExit
    \/ OnMessage
    \/ PlaybackDone

(***************************************************************************)
(* ask_sync.                                                               *)
(***************************************************************************)
_append_tools_to_message(prompt) == <<prompt, "\n\nAvailable functions: ", "tools">>

\* A placeholder in the source: the same answer to every message.
_get_openai_response(message) == <<"Response from OpenAI">>

\* The try block of ask_sync.  handled: _handle_system_control was called (its
\* body is a placeholder that does nothing).
ask_body(prompt, function_calling) ==
    LET message == _append_tools_to_message(prompt)
        response == _get_openai_response(message)
    IN [result |-> Returned(response, <<>>), handled |-> function_calling]

\* An ask_sync that looks for tool calls whatever function_calling says.
ask_sync_AlwaysHandles(prompt, function_calling) ==
    [result |-> ask_body(prompt, function_calling).result, handled |-> TRUE]

ask_sync(prompt, function_calling) ==
    LET r == ask_body(prompt, function_calling)
    IN IF r.result.raised /\ IsException(r.result.exc)
       THEN [result |-> Returned(<<"Error: ", r.result.exc>>, <<>>), handled |-> r.handled]
       ELSE r

(***************************************************************************)
(* The page (src/app.py).  Its ai_controller is controllers[1]; mode,       *)
(* messages and the realtime fields are those of the controller            *)
(* constructed last.                                                       *)
(***************************************************************************)
Prompts == {"mute the sound", "what time is it"}

\* A chat turn that puts the newest exchange on top.
chat_turn_NewestFirst(history, prompt, response) ==
    <<[role |-> "user", content |-> <<prompt>>],
      [role |-> "assistant", content |-> response]>> \o history

\* The two appends of a chat turn.
chat_turn(history, prompt, response) ==
    history \o <<[role |-> "user", content |-> <<prompt>>],
                 [role |-> "assistant", content |-> response]>>

ChatTurn ==
    \E prompt \in Prompts :
        LET r == ask_sync(prompt, controllers[1].function_calling)
        IN /\ ~Blocked
           /\ Len(chat) < 2 * MaxTurns
           /\ askCall' = [called |-> TRUE, prompt |-> prompt, handled |-> r.handled,
                          result |-> r.result]
           /\ chat' = IF r.result.raised
                      THEN Append(chat, [role |-> "user", content |-> <<prompt>>])
                      ELSE chat_turn(chat, prompt, r.result.value)
           /\ UNCHANGED <<configVars, hostVars, playVars, streamVars, call, env,
                          settings, controllers, realtime_controller>>

\* What the page shows: one chat message per entry, in list order.
Displayed ==
    [i \in 1..Len(chat) |->
        [name |-> IF chat[i].role = "assistant" THEN "assistant" ELSE "user",
         markdown |-> chat[i].content]]

\* The quick-control buttons: volume, window and power, each shown only if
\* the platform supports the feature.
QuickInputs ==
    {<<"volume", "valid">>, <<"window", "optional">>, <<"power", "valid">>}

QuickAction ==
    \E in \in QuickInputs, c \in {"ok", "raise"} :
        /\ ~Blocked
        /\ platform.supported_features[in[1]]
        /\ call' = Record("handle_system_control", in[1], in[2], c,
                          handle_system_control(in[1], ParamsOf(in[1], in[2]), c))
        /\ UNCHANGED <<configVars, hostVars, appVars, playVars, streamVars>>

\* The values a user submits in the Settings form.
Submissions ==
    {LoadSettings(DefaultEnv),
     [LoadSettings(DefaultEnv) EXCEPT !["OPENAI_MODEL"] = "gpt-4o-realtime-preview",
                                      !["INITIAL_PROMPT"] = "Be brief.",
                                      !["DEVICE"] = "laptop",
                                      !["FUNCTION_CALLING"] = FALSE,
                                      !["VOICE"] = "alloy",
                                      !["INCLUDE_DATE"] = FALSE]}

\* A Settings form that also reconfigures the controllers that exist.
settings_form_Live(form, existing) ==
    [settings |-> form, env |-> StoreSettings(form),
     controllers |-> [i \in 1..Len(existing) |-> AIController(form, existing[i].mode)]]

\* The Settings form on submit: the nine settings, then the nine set_key calls.
settings_form(form, existing) ==
    [settings |-> form, env |-> StoreSettings(form), controllers |-> existing]

SaveSettings ==
    \E form \in Submissions :
        LET saved == settings_form(form, controllers)
        IN /\ ~Blocked
           /\ settings' = saved.settings
           /\ env' = saved.env
           /\ controllers' = saved.controllers
           /\ UNCHANGED <<configVars, hostVars, playVars, streamVars, call,
                          realtime_controller, chat, askCall>>

\* "Start Realtime Audio Chat": a new controller in realtime mode, built from
\* the settings, then start_realtime() on it.
StartRealtimeChat ==
    \E fail \in {"none", "InputStream", "start"} :
        /\ ~Blocked
        /\ realtime_controller = 0
        /\ Len(controllers) < MaxControllers
        /\ controllers' = Append(controllers, AIController(settings, "realtime"))
        /\ realtime_controller' = Len(controllers) + 1
        /\ mode' = "realtime"
        /\ messages' = _initialize_messages(settings["INITIAL_PROMPT"] # "")
        /\ audio_queue' = <<>>
        /\ IF fail = "InputStream"
           THEN /\ is_recording' = FALSE
                /\ audio_stream' = 0
                /\ ws' = 0
                /\ ws_thread' = 0
                /\ rtCall' = RtCall("start_realtime", "raised", FALSE, 0, "Idle", <<>>, 0)
                /\ UNCHANGED <<streams, transports, threads>>
           ELSE open_stream(fail, FALSE)
        /\ UNCHANGED <<hostVars, playVars, call, captured, outbound, env, settings,
                       chat, askCall>>

\* "Stop Realtime Audio Chat": stop_realtime(), then the slot is cleared, unless
\* stop_realtime raised or still waits for the thread.
StopRealtimeChat ==
    \E fail \in {"none", "audio_stream.stop", "audio_stream.close", "ws.close"} :
        /\ ~Blocked
        /\ realtime_controller # 0
        /\ fail # "none" => Contains(Performed(fail), fail)
        /\ stop_realtime(fail)
        /\ realtime_controller' = IF rtCall'.result = "returned" THEN 0
                                  ELSE realtime_controller
        /\ UNCHANGED <<configVars, hostVars, playVars, call, audio_queue, captured,
                       outbound, env, settings, controllers, chat, askCall>>

\* join() returns inside the Stop button's handler, which then clears the slot.
StopRealtimeChatReturns ==
    /\ Blocked
    /\ realtime_controller # 0
    /\ threads[ws_thread] = "finished"
    /\ rtCall' = [rtCall EXCEPT !.result = "returned"]
    /\ realtime_controller' = 0
    /\ UNCHANGED <<configVars, hostVars, playVars, call, is_recording, audio_stream,
                   ws, ws_thread, audio_queue, streams, transports, threads, captured,
                   outbound, env, settings, controllers, chat, askCall>>

\* The page, with the transport threads it starts.  What the peer does to the
\* connections is left to the specifications of the realtime session.
AppNext ==
    \/ ChatTurn
    \/ QuickAction
    \/ SaveSettings
    \/ StartRealtimeChat
    \/ StopRealtimeChat
    \/ StopRealtimeChatReturns
    \/ RunForever
    \/ ThreadExit

\* A Linux host where every feature works, with the file to read in place.
HostInit ==
    /\ platform = SystemController("linux", FALSE, {})
    /\ fs = [p \in Paths |-> "file content"]

\* The realtime interface does not read the settings: one environment is enough.
StreamInit == Init /\ HostInit /\ env = DefaultEnv

StreamSpec == StreamInit /\ [][StreamNext]_vars

\* The activities no user drives: the audio subsystem and the transport thread.
FairStreamSpec ==
    /\ StreamSpec
    /\ WF_vars(AudioCallback)
    /\ WF_vars(RunForever)
    /\ WF_vars(TransportOpen)
    /\ WF_vars(ThreadExit)
    /\ WF_vars(JoinReturns)

ReceiveSpec == StreamInit /\ [][ReceiveNext]_vars

\* The steps that happen without anyone asking: the threads run, the audio
\* device plays to the end.  Whether the peer opens, closes or fails the
\* connection is up to the peer.
FairReceiveSpec ==
    /\ ReceiveSpec
    /\ WF_vars(RunForever)
    /\ WF_vars(ThreadExit)
    /\ WF_vars(PlaybackDone)
    /\ WF_vars(JoinReturns)

\* The page starts with its ai_controller in text mode.
AppInit ==
    /\ Init
    /\ HostInit
    /\ mode = "text"
    /\ env["INITIAL_PROMPT"] = ""

AppSpec == AppInit /\ [][AppNext]_vars

(***************************************************************************)
(* The activities of a realtime session and the controller fields each     *)
(* one touches.                                                            *)
(***************************************************************************)
\* capture: _audio_callback, fired by the audio subsystem; receiver: the
\* transport thread with _on_message, _on_error, _on_close; main: the caller of
\* start_realtime, stop_realtime and send_text_message.  Nothing in the source
\* takes frames from the queue: there is no sender.
Activities == {"capture", "receiver", "main"}

Fields == {"mode", "sample_rate", "is_recording", "audio_stream", "ws", "ws_thread",
           "audio_queue"}

\* The self.<field> expressions each activity evaluates.
FieldsRead(activity) ==
    CASE activity = "capture" -> {"audio_queue"}
      [] activity = "receiver" -> {"sample_rate"}
      [] activity = "main" -> {"mode", "sample_rate", "audio_stream", "ws", "ws_thread"}

\* The fields each activity assigns, or changes through a method of the object.
FieldsWritten(activity) ==
    CASE activity = "capture" -> {"audio_queue"}
      [] activity = "receiver" -> {}
      [] activity = "main" -> {"is_recording", "audio_stream", "ws", "ws_thread"}

\* The value of a field; mode and sample_rate are set in __init__ only.
FieldValue(field) ==
    CASE field = "is_recording" -> <<is_recording>>
      [] field = "audio_stream" -> <<audio_stream>>
      [] field = "ws" -> <<ws>>
      [] field = "ws_thread" -> <<ws_thread>>
      [] field = "audio_queue" -> audio_queue
      [] field = "mode" -> <<mode>>
      [] field = "sample_rate" -> <<16000>>

\* The capture callback, the transport thread and the caller of start and stop
\* together, for at most MaxSessions streams.
ActivityNext ==
    \/ StartRealtime /\ NextId <= MaxSessions
    \/ StopRealtime
    \/ JoinReturns
    \/ AudioCallback
    \/ RunForever
    \/ TransportOpen
    \/ TransportError
    \/ TransportClosed
    \/ ThreadExit
    \/ OnMessage
    \/ PlaybackDone

\* A realtime controller that has not been started.
ActivityInit ==
    /\ Init
    /\ platform = SystemController("linux", FALSE, {})
    /\ fs = [p \in Paths |-> "file content"]
    /\ env = DefaultEnv
    /\ mode = "realtime"

ActivitySpec == ActivityInit /\ [][ActivityNext]_vars

DispatchNext ==
    \/ HandleSystemControl
    \/ HandleFileOperation /\ fs' = fs
    \/ HandleTerminalOperation
    \/ HandleWebOperation
    \/ HandleMediaOperation

DispatchInit == Init /\ HostInit /\ settings["FUNCTION_CALLING"] /\ mode = "text"

DispatchSpec == DispatchInit /\ [][DispatchNext]_vars

\* The system handler on every platform SystemController can find itself on.
SystemInit ==
    /\ Init
    /\ fs = [p \in Paths |-> "file content"]
    /\ env = DefaultEnv
    /\ mode = "text"

SystemNext == HandleSystemControl \/ SystemOperation

SystemSpec == SystemInit /\ [][SystemNext]_vars

\* The file handler over every file system of the model.
FileInit ==
    /\ Init
    /\ platform = SystemController("linux", FALSE, {})
    /\ settings["FUNCTION_CALLING"]

FileNext == HandleFileOperation

FileSpec == FileInit /\ [][FileNext]_vars

\* DatabaseOperations on its own, from the empty connections map.
DatabaseInit ==
    /\ Init
    /\ platform = SystemController("linux", FALSE, {})
    /\ fs = [p \in Paths |-> "file content"]
    /\ env = DefaultEnv
    /\ mode = "text"

DatabaseSpec == DatabaseInit /\ [][DatabaseNext]_vars

Next == DispatchNext \/ StreamNext

Spec == Init /\ [][Next]_vars

(***************************************************************************)
(* Properties of the handlers.                                             *)
(***************************************************************************)
Called == call.handler # "none"

\* The try block of the handler h.
BodyOf(h, name, params, c) ==
    CASE h = "handle_system_control" -> system_body(name, params, c)
      [] h = "handle_file_operation" -> file_body(name, params, c)
      [] h = "handle_terminal_operation" -> terminal_body(name, params, c)
      [] h = "handle_web_operation" -> web_body(name, params, c)
      [] h = "handle_media_operation" -> media_body(name, params, c)

\* What the try block of the last call did.
TryBlock == BodyOf(call.handler, call.operation, ParamsOf(call.operation, call.kind),
                   call.collaborator)

InitialTranscripts == {_initialize_messages(p) : p \in BOOLEAN}



GroupError(group) ==
    CASE group = "system" -> "Error in system operation: "
      [] group = "file" -> "Error in file operation: "
      [] group = "terminal" -> "Error in terminal operation: "
      [] group = "web" -> "Error in web operation: "
      [] group = "media" -> "Error in media operation: "

\* C1: every call of a handler returns a value to its caller and never raises,
\* whatever the operation name, the arguments and the collaborator do.
C1_HandlersNeverRaise == Called => ~call.result.raised

\* A call whose try block raised: the collaborator, or the binding of its arguments.
C1_Witness == Called /\ TryBlock.raised /\ ~call.result.raised

\* C2: for every unregistered operation name a handler answers "Unknown action"
\* followed by the name, calls no collaborator and leaves the transcript alone.
C2_UnregisteredIsUnknownAction ==
    (Called /\ call.operation \notin Registered) =>
        /\ call.result.value = <<"Unknown action: ", call.operation>>
        /\ call.result.invoked = <<>>
        /\ messages \in InitialTranscripts

\* C3: a registered name dispatched with its required parameters to the handler
\* the registry maps it to reaches the collaborator operation of that name and
\* gives its result or a handler-failure message, never the answer kept for
\* unregistered names.
C3_RegisteredIsRouted ==
    (/\ Called
     /\ call.operation \in Registered
     /\ call.handler = available_functions(call.operation)
     /\ call.kind = "valid") =>
        /\ ~call.result.raised
        /\ Len(call.result.invoked) = 1
        /\ call.result.invoked[1].method = call.operation
        /\ \/ call.result.value = <<"result of ", call.operation>>
           \/ Head(call.result.value) = GroupError(Group(call.handler))

\* C4 as stated: whenever the try block of the handler of group G raises, the
\* message is "Error in <G> operation: <detail>", for all five groups.
C4_ErrorNamesGroup ==
    (Called /\ TryBlock.raised) =>
        call.result.value = <<GroupError(Group(call.handler)), TryBlock.exc>>

\* C4 as amended: the file, terminal, web and media handlers answer
\* "Error in <G> operation: <detail>"; the system handler answers
\* "Error executing <action>: <detail>" with the requested action.
C4_ErrorMessage ==
    (Called /\ TryBlock.raised) =>
        IF call.handler = "handle_system_control"
        THEN call.result.value = <<"Error executing ", call.operation, ": ", TryBlock.exc>>
        ELSE call.result.value = <<GroupError(Group(call.handler)), TryBlock.exc>>

\* A collaborator of the system group was called and raised.
C4_Witness ==
    /\ call.handler = "handle_system_control"
    /\ Len(call.result.invoked) = 1
    /\ TryBlock.exc = "CollaboratorError"

\* The last call passed a registered name to the handler the registry maps it to.
Dispatched ==
    /\ Called
    /\ call.operation \in Registered
    /\ call.handler = available_functions(call.operation)

\* The transcript ends with a tool entry that carries the result of the last call.
ToolEntryAppended ==
    /\ Len(messages) > 0
    /\ Last(messages).role = "tool"
    /\ Last(messages).content = call.result.value

\* C12: after every dispatch of a registered operation that returned, the
\* transcript ends with one entry of role tool whose content is the result.
C12_DispatchAppendsToolEntry ==
    (Dispatched /\ ~call.result.raised) => ToolEntryAppended

\* C14: "control_volume" dispatched with action "set" and value 150 on a platform
\* without volume control answers that volume control is not supported and makes
\* no call on the operating system.
C14_VolumeUnsupportedMessage ==
    (/\ Dispatched
     /\ call.operation = "control_volume"
     /\ call.kind = "optional"
     /\ call.collaborator = "run"
     /\ ~platform.supported_features["volume"]) =>
        /\ call.result.value = <<"Volume control is not supported on this system">>
        /\ call.result.effects = <<>>

\* C15: "read_file" dispatched with the path of a file that does not exist
\* answers a message that starts with "Error in file operation:" and the
\* transcript gets a tool entry with it.
C15_ReadMissingFile ==
    (/\ Dispatched
     /\ call.operation = "read_file"
     /\ call.kind = "valid"
     /\ call.collaborator = "run"
     /\ fs[ArgValue("path")] = "absent") =>
        /\ Head(call.result.value) = "Error in file operation: "
        /\ ToolEntryAppended

\* C17: every call of a handler gives its caller a status message, a string,
\* never a value of another shape.
C17_UniformResultShape ==
    Called => (~call.result.raised /\ call.result.type = "str")

\* The last call named an operation its handler has a branch for.
Recognised ==
    \/ Dispatched
    \/ call.handler = "handle_system_control" /\ call.operation \in SystemActions

\* C20: in every group, a call that lacks its required keys still reaches the
\* collaborator, which gets None for each of them.
C20_ValidationIsPermissive ==
    (/\ Recognised
     /\ call.kind = "missing"
     /\ RequiredParams(call.operation) # {}) =>
        /\ Len(call.result.invoked) = 1
        /\ call.result.invoked[1].none = RequiredParams(call.operation)

\* C21: one call of a handler invokes at most one collaborator operation, at
\* most once, and does not invoke it again after it failed.
C21_AtMostOneInvocation == Called => Len(call.result.invoked) <= 1

\* The collaborator was invoked, raised, and was not invoked again.
C21_Witness ==
    /\ Called
    /\ call.collaborator = "raise"
    /\ Len(call.result.invoked) = 1
    /\ Head(call.result.value) = GroupError(Group(call.handler))

(***************************************************************************)
(* Properties of the realtime session.                                     *)
(***************************************************************************)
\* C5: start_realtime on a stream already started and not stopped fails with
\* AlreadyActive and creates no second stream, transport or thread.
C5_StartOnlyFromIdle ==
    (rtCall.op = "start_realtime" /\ rtCall.active) =>
        /\ rtCall.result = "AlreadyActive"
        /\ rtCall.created = 0
        /\ Cardinality({i \in Ids : streams[i] = "running"}) <= 1

\* C6: stop_realtime on a controller never started, or already stopped, makes no
\* call on the capture stream, the transport or the thread, and does not raise.
C6_StopIsIdempotent ==
    (rtCall.op = "stop_realtime" /\ rtCall.before \in {"Idle", "Closed"}) =>
        /\ rtCall.performed = <<>>
        /\ rtCall.result = "returned"

\* C7: once stop_realtime has ended on a started stream, by returning or by
\* raising, the capture stream is closed and a close of the transport was tried.
C7_StopReleasesEverything ==
    (rtCall.op = "stop_realtime" /\ audio_stream # 0 /\ ws # 0) =>
        /\ streams[audio_stream] = "closed"
        /\ Contains(rtCall.performed, "ws.close")

\* Any capacity a queue of the model could be held to.
QueueCapacity == MaxFrames - 1

C9_TransportErrorStopsCapture ==
    (ws # 0 /\ transports[ws] = "failed") =>
        /\ ~is_recording
        /\ streams[audio_stream] # "running"

\* The stream runs and its transport is open.
Healthy ==
    /\ is_recording
    /\ audio_stream # 0 /\ streams[audio_stream] = "running"
    /\ ws # 0 /\ transports[ws] = "open"

Forwarded(f) ==
    \E i \in 1..Len(outbound) : outbound[i].type = "audio" /\ outbound[i].frame = f

\* C10: while the stream runs and the transport stays open, every frame in the
\* queue is eventually forwarded over the transport.
C10_FramesAreForwarded ==
    \A f \in 1..MaxFrames :
        []((Contains(audio_queue, f) /\ []Healthy) => <>Forwarded(f))

\* C11: audio messages are played in the order they arrived: each playback that
\* begins runs to its end before the next begins, and no message is played twice.
C11_PlaybackInArrivalOrder ==
    \A i \in 1..Len(playLog) :
        /\ (playLog[i].event = "begin" /\ i < Len(playLog)) =>
               (playLog[i + 1].event = "end" /\ playLog[i + 1].msg = playLog[i].msg)
        /\ \A j \in 1..Len(playLog) :
               (i < j /\ playLog[i].event = "begin" /\ playLog[j].event = "begin") =>
                   playLog[i].msg < playLog[j].msg

\* C16: every call of stop_realtime ends, whatever the transport thread does.
C16_StopTerminates == Blocked ~> ~Blocked

(***************************************************************************)
(* Properties of the page and of ask_sync.                                 *)
(***************************************************************************)
\* C13: the chat history only grows at its end, a chat turn adds the user's
\* entry and then the assistant's, and the page shows the entries in the order
\* they were added.
C13_ChatIsAppendOnly ==
    [][/\ Len(chat') >= Len(chat)
       /\ SubSeq(chat', 1, Len(chat)) = chat
       /\ chat' # chat =>
              /\ Len(chat') = Len(chat) + 2
              /\ chat'[Len(chat) + 1] = [role |-> "user", content |-> <<askCall'.prompt>>]
              /\ chat'[Len(chat) + 2] = [role |-> "assistant",
                                         content |-> askCall'.result.value]
       /\ \A i \in 1..Len(chat') : Displayed'[i].markdown = chat'[i].content]_vars

\* The history holds as many turns as the model allows.
C13_Witness == Len(chat) = 2 * MaxTurns

\* C18: ask_sync gives its caller a string, the response or a message that
\* starts with "Error: ", and never raises; it looks for tool calls only if
\* function_calling is set.
C18_AskSyncReturnsString ==
    askCall.called =>
        /\ ~askCall.result.raised
        /\ askCall.result.type = "str"
        /\ \/ askCall.result.value = _get_openai_response(
                                          _append_tools_to_message(askCall.prompt))
           \/ Head(askCall.result.value) = "Error: "
        /\ askCall.handled => controllers[1].function_calling

\* ask_sync returned on a controller whose function_calling is off.
C18_Witness ==
    /\ askCall.called
    /\ ~controllers[1].function_calling
    /\ askCall.result.value = <<"Response from OpenAI">>

\* C19: no step changes the configuration of a controller that exists; saving
\* the settings changes the stored settings and the .env file only; a
\* controller constructed later takes the settings as they are then.
C19_ConfigFixedAtConstruction ==
    [][/\ Len(controllers') >= Len(controllers)
       /\ \A i \in 1..Len(controllers) : controllers'[i] = controllers[i]
       /\ settings' # settings =>
              /\ controllers' = controllers
              /\ env' = StoreSettings(settings')
              /\ LoadSettings(env') = settings'
       /\ Len(controllers') > Len(controllers) =>
              /\ Len(controllers') = Len(controllers) + 1
              /\ Last(controllers') = AIController(settings, "realtime")]_vars

\* A controller built after a save differs from the page's first controller,
\* and the settings have been saved again since.
C19_Witness ==
    /\ Len(controllers) >= 2
    /\ controllers[2].model # controllers[1].model
    /\ settings["OPENAI_MODEL"] # controllers[2].model

(***************************************************************************)
(* Properties of the activities of a session.                              *)
(***************************************************************************)
\* Which activity took the step.
CaptureStep == captured' # captured

MainStep == rtCall' # rtCall \/ outbound' # outbound

ReceiverStep ==
    /\ ~CaptureStep
    /\ ~MainStep
    /\ <<threads, transports, arrived, playLog>>' # <<threads, transports, arrived, playLog>>

StepBy(activity) ==
    CASE activity = "capture" -> CaptureStep
      [] activity = "receiver" -> ReceiverStep
      [] activity = "main" -> MainStep

FeatureOf(method) ==
    CASE method = "control_volume" -> "volume"
      [] method = "control_brightness" -> "brightness"
      [] method = "power_management" -> "power"
      [] method = "window_management" -> "window"
      [] method = "process_control" -> "process"

Unsupported(feature) ==
    CASE feature = "volume" -> "Volume control is not supported on this system"
      [] feature = "brightness" -> "Brightness control is not supported on this system"
      [] feature = "power" -> "Power management is not supported on this system"
      [] feature = "window" -> "Window management is not supported on this system"
      [] feature = "process" -> "Process control is not supported on this system"

OperationCalled == call.handler = "system_controller"

\* C23: an operation of SystemController whose feature flag is false returns
\* the "... is not supported on this system" message of its feature and does
\* nothing on the operating system, whatever the action and the argument.
C23_UnsupportedFeatureDoesNothing ==
    (OperationCalled /\ ~platform.supported_features[FeatureOf(call.operation)])
        => /\ ~call.result.raised
           /\ call.result.value = <<Unsupported(FeatureOf(call.operation))>>
           /\ call.result.effects = <<>>

\* Brightness was asked for on a Linux host whose brightness probe had raised.
C23_Witness ==
    /\ OperationCalled
    /\ call.operation = "control_brightness"
    /\ call.kind = "set"
    /\ platform.system = "linux"
    /\ ~platform.supported_features["brightness"]
    /\ call.result.value = <<"Brightness control is not supported on this system">>
    /\ call.result.effects = <<>>

(***************************************************************************)
(* Properties of send_text_message.                                        *)
(***************************************************************************)
Sent == rtCall.op = "send_text_message"

\* A step that is a call of send_text_message.
SendStep == rtCall'.op = "send_text_message" /\ <<rtCall, outbound>>' # <<rtCall, outbound>>

\* No transport was open when the call was made.
NoOpenTransport == ws = 0 \/ transports[ws] # "open"

\* The envelopes the call put on the wire.
NewlySent == SubSeq(outbound', Len(outbound) + 1, Len(outbound'))

\* C24 as stated: every call sends exactly two envelopes, or fails and sends
\* none when no transport is open.
C24_ExactlyTwoPerCall ==
    [][SendStep =>
           \/ rtCall'.result = "returned" /\ Len(NewlySent) = 2
           \/ NoOpenTransport /\ rtCall'.result = "raised" /\ NewlySent = <<>>]_vars

\* C24 amended: a call that returns has sent exactly the item under the given
\* role and then the response request; a call that raises has sent nothing or
\* the item alone, never the response request without the item; with no open
\* transport it raises and sends nothing.
C24_ItemThenResponse ==
    [][SendStep =>
           /\ Len(outbound') = Len(outbound) + rtCall'.sent
           /\ SubSeq(outbound', 1, Len(outbound)) = outbound
           /\ NewlySent = SubSeq(<<Envelope("conversation.item.create", "user"),
                                   Envelope("response.create", "none")>>, 1, rtCall'.sent)
           /\ rtCall'.result \in {"returned", "raised"}
           /\ (rtCall'.result = "returned") = (rtCall'.sent = 2)
           /\ NoOpenTransport => rtCall'.sent = 0 /\ rtCall'.result = "raised"]_vars

\* A call on an open transport returned after both envelopes went out.
C24_Witness ==
    /\ Sent
    /\ rtCall.result = "returned"
    /\ rtCall.sent = 2
    /\ Len(outbound) = 2
    /\ outbound[1].type = "conversation.item.create"
    /\ outbound[2].type = "response.create"

(***************************************************************************)
(* Properties of a controller that is not in realtime mode.                *)
(***************************************************************************)
\* C25: on a controller whose mode is not "realtime", start_realtime opens no
\* transport, starts no thread and no capture stream and leaves ws, ws_thread
\* and is_recording as the constructor set them, so that controller never
\* streams.
C25_TextModeNeverStreams ==
    mode # "realtime" =>
        /\ ws = 0
        /\ ws_thread = 0
        /\ ~is_recording
        /\ \A i \in Ids :
               streams[i] = "none" /\ transports[i] = "none" /\ threads[i] = "none"
        /\ captured = 0

\* start_realtime was called on a text-mode controller and returned.
C25_Witness ==
    /\ mode = "text"
    /\ rtCall.op = "start_realtime"
    /\ rtCall.result = "returned"
    /\ ws = 0
    /\ ~is_recording

(***************************************************************************)
(* Properties of is_recording.                                             *)
(***************************************************************************)
StreamRunning == audio_stream # 0 /\ streams[audio_stream] = "running"

ThreadAlive(t) == threads[t] \in {"started", "running", "playing"}

\* C26: is_recording is true exactly when the capture stream is open and
\* running, and a transport thread runs only while is_recording is true.
C26_RecordingMatchesStream ==
    /\ is_recording = StreamRunning
    /\ \A t \in Ids : ThreadAlive(t) => is_recording

(***************************************************************************)
(* Properties of the Realtime tab.                                         *)
(***************************************************************************)
\* The Stop button's call of stop_realtime has come to an end.
StopEnded == rtCall.op = "stop_realtime" /\ rtCall.result \in {"returned", "raised"}

\* C27: the tab stores at most one realtime controller, calls start_realtime
\* only on the controller it has just constructed, which was never started,
\* and every Stop press ends with the stored controller cleared.
C27_StopClearsController ==
    /\ realtime_controller \in 0..Len(controllers)
    /\ rtCall.op = "start_realtime" =>
           ~rtCall.active /\ realtime_controller = Len(controllers)
    /\ StopEnded => realtime_controller = 0

(***************************************************************************)
(* Properties of _on_message.                                              *)
(***************************************************************************)
\* A step that is a call of _on_message.
OnMessageStep == arrived' # arrived

\* C28: _on_message returns without raising whatever the message is (malformed
\* JSON, undecodable audio, a playback failure, neither or both of the text and
\* audio fields), leaves is_recording, the transport and the audio queue as
\* they were, and treats a message with both fields as text: no playback.
C28_OnMessageNeverFails ==
    [][OnMessageStep =>
           /\ inbound'.kind \in MessageKinds
           /\ ~inbound'.raised
           /\ UNCHANGED <<is_recording, audio_stream, ws, ws_thread, transports,
                          streams, audio_queue>>
           /\ inbound'.kind = "both" =>
                  /\ inbound'.printed = "AI: text"
                  /\ ~inbound'.played
                  /\ playLog' = playLog]_vars

\* A message with both fields came in while the stream ran, and was printed.
C28_Witness ==
    /\ inbound.kind = "both"
    /\ inbound.printed = "AI: text"
    /\ ~inbound.played
    /\ is_recording
    /\ \E t \in Ids : transports[t] = "open" /\ threads[t] = "running"

(***************************************************************************)
(* Properties of the file handler and the file system.                     *)
(***************************************************************************)
\* The result of a file operation is one of its error messages.
ReportsError(result) ==
    Head(result.value) \in {"Error creating file: ", "Error writing to file: ",
                            "Error reading file: ", "Error in file operation: ",
                            "Invalid file operation"}

\* C29: a file operation that reports an error leaves the file system as it
\* was; create_file and write_file without "content" neither truncate an
\* existing file nor create a missing one.
C29_ErrorLeavesFilesAlone ==
    [][(call'.handler = "handle_file_operation" /\ ReportsError(call'.result))
           => fs' = fs]_vars

(***************************************************************************)
(* Properties of DatabaseOperations.                                       *)
(***************************************************************************)
Queried == dbCall.op \in {"execute_query", "export_data"}

NoConnection(db_type) == DbError(<<"No connection to ", db_type, " database">>)

\* C30: the map holds at most one connection per type; an entry appears only
\* through a connect_database, or a sqlite create_database, of that type that
\* succeeded, and a failed or unsupported one adds none; execute_query and
\* export_data run against the entry of their type when there is one and
\* otherwise return "No connection to <db_type> database"; they never change
\* the map.
C30_ConnectionsOnlyAfterConnect ==
    [][dbCall' # dbCall \/ connections' # connections =>
           /\ \A t \in DbTypes :
                  connections'[t] # connections[t] =>
                      /\ dbCall'.db_type = t
                      /\ dbCall'.result.key = "success"
                      /\ \/ dbCall'.op = "connect_database"
                         \/ dbCall'.op = "create_database" /\ t = "sqlite"
                      /\ connections'[t] # 0
           /\ dbCall'.result.key = "error" => connections' = connections
           /\ dbCall'.op \in {"execute_query", "export_data"} =>
                  /\ connections' = connections
                  /\ dbCall'.used = connections[dbCall'.db_type]
                  /\ (connections[dbCall'.db_type] = 0) =
                         (dbCall'.result = NoConnection(dbCall'.db_type))
           /\ dbCall'.op \in {"connect_database", "create_database"} =>
                  dbCall'.used = 0]_vars

\* With only sqlite connected, a mysql export was refused and the map kept.
C30_Witness ==
    /\ dbCall.op = "export_data"
    /\ dbCall.db_type = "mysql"
    /\ dbCall.result = NoConnection("mysql")
    /\ connections["mysql"] = 0
    /\ connections["sqlite"] # 0

====
